---- MODULE Spec2Model ----
(***************************************************************************)
(* Model of the Oligo Grace pendant firmware (OligoGracePendant.ino):      *)
(* the proximity interrupt, the fade timer interrupt, setup() and the      *)
(* ~10 ms main loop, with the EEPROM record and its CRC-16.                *)
(*                                                                         *)
(* The firmware's globals, the peripheral registers it programs and the    *)
(* locals of one loop() iteration are the fields of the record fw.  One    *)
(* loop() iteration is a sequence of steps named by the source line they   *)
(* start at (fw.pc); the proximity interrupt may be taken before any step. *)
(***************************************************************************)
EXTENDS Integers, Sequences, FiniteSets, TLC

VARIABLES
  fw,     \* firmware globals, peripheral registers, loop() locals
  line,   \* level of the proximity input pin (PIN_PROXIMITY)
  wall,   \* wall-clock time since the model started [ms]
  env,    \* what the environment may still do (budgets, time of the last edge)
  prof,   \* the environment's profile: the inputs a specification draws from
  hist    \* history: the last pulse, the last modification, the last commit

vars == <<fw, line, wall, env, prof, hist>>

----------------------------------------------------------------------------
(* Program constants (#define) *)

EEPROM_MAGIC == 45054
BACKUP_DELAY == 10000
LOOP_PERIOD == 10
DURATION_MIN == 100
DURATION_POWER_MAX == 600
DURATION_DIM_MIN == 800
DURATION_TOGGLE_STEP == 5000
DURATION_LOCK == 15000
DURATION_DIM_INC == 40
DURATION_DIM_STEP == DURATION_DIM_MIN
BRIGHTNESS_MIN == 4
BRIGHTNESS_STEP_1 == 16
BRIGHTNESS_STEP_2 == 32
BRIGHTNESS_MAX == 100
BRIGHTNESS_INC == 1
PWM_FREQUENCY == 32000
FADE_DURATION == 2
BLINK_PERIOD_FAST == 100
BLINK_PERIOD_SLOW == 500
NTC_TEMP_MAX == 85
NTC_TEMP_HYSTERESIS == 5
NTC_TEMP_INVALID == 999
ADC_SAMPLES == 3
adcResolution == 1023
F_CPU == 8000000
T2_PRESCALER == 1024

LEVEL_0 == 0
LEVEL_1 == BRIGHTNESS_MIN
LEVEL_2 == BRIGHTNESS_STEP_1
LEVEL_3 == BRIGHTNESS_STEP_2
LEVEL_4 == BRIGHTNESS_MAX

\* 2^16: unsigned int is 16 bits wide on the AVR.  (unsigned long, 32 bits,
\* holds millis(); it wraps after 49.7 days, far beyond the times modelled.)
UINT16 == 65536

\* ICR1 = F_CPU/PWM_FREQUENCY: timer 1 ticks per PWM period
ICR1 == F_CPU \div PWM_FREQUENCY

\* OCR2A = F_CPU/1024L*FADE_DURATION/ICR1: timer 2 compare value
OCR2A == ((F_CPU \div T2_PRESCALER) * FADE_DURATION) \div ICR1

\* microseconds between two TIMER2_COMPA interrupts (CTC mode, TOP = OCR2A)
T2_PERIOD_US == (OCR2A + 1) * ((T2_PRESCALER * 1000) \div (F_CPU \div 1000))

\* the modes that blink
Indications == {"MODE_BLINK_SETTINGS", "MODE_BLINK_LIMIT", "MODE_BLINK_WARNING"}

Modes == {"MODE_STANDBY", "MODE_DEFAULT", "MODE_BLINK_SETTINGS",
          "MODE_BLINK_LIMIT", "MODE_BLINK_WARNING", "MODE_BLINK_END"}

----------------------------------------------------------------------------
(* Bit arithmetic and the CRC-16 of avr-libc's _crc16_update *)

RECURSIVE Xor(_, _)
Xor(a, b) ==
  IF a = 0 THEN b
  ELSE IF b = 0 THEN a
  ELSE ((a + b) % 2) + 2 * Xor(a \div 2, b \div 2)

RECURSIVE Crc16Shift(_, _)
Crc16Shift(crc, n) ==
  IF n = 0 THEN crc
  ELSE IF crc % 2 = 1
  THEN Crc16Shift(Xor(crc \div 2, 40961), n - 1)
  ELSE Crc16Shift(crc \div 2, n - 1)

\* crc ^= a; 8 times: crc = (crc & 1) ? (crc >> 1) ^ 0xA001 : (crc >> 1)
crc16_update(crc, a) == Crc16Shift(Xor(crc, a), 8)

\* the CRC of the first n bytes
RECURSIVE Crc16Bytes(_, _)
Crc16Bytes(bytes, n) ==
  IF n = 0 THEN 0 ELSE crc16_update(Crc16Bytes(bytes, n - 1), bytes[n])

\* a CRC over sizeof(T*) = 2 bytes instead of sizeof(T)
calculateCRC16OfPointer(bytes) == Crc16Bytes(bytes, 2)

\* the sum of the bytes in place of their CRC
RECURSIVE SumBytes(_, _)
SumBytes(bytes, n) ==
  IF n = 0 THEN 0 ELSE (SumBytes(bytes, n - 1) + bytes[n]) % UINT16

calculateSum16(bytes) == SumBytes(bytes, Len(bytes))

\* calculateCRC16(t): crc16 = 0, updated with every byte of t in address order
calculateCRC16(bytes) == Crc16Bytes(bytes, Len(bytes))

----------------------------------------------------------------------------
(* struct Settings and its image in memory (AVR: little endian, no padding) *)

\* the initializers of struct Settings
DefaultSettings ==
  [magic |-> EEPROM_MAGIC, brightness |-> BRIGHTNESS_STEP_2, dimSteps |-> TRUE,
   proximitySensorLocked |-> FALSE, crc |-> 0]

BoolByte(b) == IF b THEN 1 ELSE 0

\* the sizeof(Settings) = 8 bytes of a Settings object
SettingsBytes(s) ==
  << s.magic % 256, s.magic \div 256,
     s.brightness % 256, s.brightness \div 256,
     BoolByte(s.dimSteps), BoolByte(s.proximitySensorLocked),
     s.crc % 256, s.crc \div 256 >>

\* the two bool members read in the wrong order
BytesSettingsSwapped(b) ==
  [magic |-> b[1] + 256 * b[2], brightness |-> b[3] + 256 * b[4],
   dimSteps |-> b[6] # 0, proximitySensorLocked |-> b[5] # 0,
   crc |-> b[7] + 256 * b[8]]

\* the Settings object that 8 bytes read from the EEPROM form
BytesSettings(b) ==
  [magic |-> b[1] + 256 * b[2], brightness |-> b[3] + 256 * b[4],
   dimSteps |-> b[5] # 0, proximitySensorLocked |-> b[6] # 0,
   crc |-> b[7] + 256 * b[8]]

\* the bytes with the crc field zeroed (restoredSettings.crc = 0; settings.crc = 0)
ZeroCrc(b) == [b EXCEPT ![7] = 0, ![8] = 0]

----------------------------------------------------------------------------
(* The firmware's state *)

\* the state after reset: the initializers of the globals (lines 221-247),
\* the registers' reset values, and the EEPROM content e
StaticInit(e) ==
  [ \* globals
    settings |-> DefaultSettings,
    near |-> FALSE, initalApproach |-> FALSE, outputEnabled |-> FALSE,
    proximityAtStartup |-> FALSE, fadeOCR |-> -1, approach |-> 0,
    operationMode |-> "MODE_DEFAULT", blinkToggleCount |-> 0,
    blinkPeriod |-> 0, blinkToggled |-> 0,
    dimUp |-> TRUE, overTemperature |-> TRUE, blinkBrightness |-> 0,
    settingsModified |-> 0, delayUntil |-> 0,
    \* peripherals: PWM duty (OCR1A = OCR1B), the OC1A/OC1B output enable
    \* bits of DDRB, the EEPROM record and the number of EEPROM.put calls,
    \* the watchdog, millis() (timer 0), microseconds since the last timer 2
    \* compare match, and what the CPU does: off, run, idle, pwrdown
    OCR1A |-> 0, DDRB |-> FALSE, eeprom |-> e, puts |-> 0, wdt |-> FALSE,
    millis |-> 0, t2us |-> 0, cpu |-> "off",
    \* locals of one loop() iteration, and where it is
    pc |-> "L602", now |-> 0, proximityDuration |-> 0, delaying |-> FALSE,
    brightness |-> 0, ntcTemperature |-> 0, dimDelay |-> 0, approachRead |-> 0,
    \* observations: fadeOCR as it was when loop() last wrote the duty
    \* registers or the output enable bits in this iteration (-1: no fade
    \* target then, or nothing written), millis() at the last reset of the
    \* watchdog timer
    fadeAtWrite |-> -1, wdtReset |-> 0 ]

\* int from unsigned int (16 bit two's complement)
ToInt16(x) == IF x >= 32768 THEN x - UINT16 ELSE x

Min(a, b) == IF a <= b THEN a ELSE b
Max(a, b) == IF a >= b THEN a ELSE b

setOperationMode(f, mode) ==
  LET g == [f EXCEPT !.operationMode = mode] IN
  CASE mode = "MODE_STANDBY" -> [g EXCEPT !.blinkToggleCount = 0, !.fadeOCR = 0]
    [] mode = "MODE_DEFAULT" -> [g EXCEPT !.blinkToggleCount = 0]
    [] mode = "MODE_BLINK_LIMIT" ->
         [g EXCEPT !.blinkToggleCount = 4, !.blinkPeriod = BLINK_PERIOD_FAST,
                   !.blinkToggled = 0]
    [] mode = "MODE_BLINK_SETTINGS" ->
         [g EXCEPT !.blinkToggleCount = 6, !.blinkPeriod = BLINK_PERIOD_SLOW,
                   !.blinkToggled = 0]
    [] mode = "MODE_BLINK_WARNING" ->
         [g EXCEPT !.blinkToggleCount = 10, !.blinkPeriod = BLINK_PERIOD_FAST,
                   !.blinkToggled = 0]
    [] mode = "MODE_BLINK_END" -> [g EXCEPT !.blinkToggleCount = -1]

\* BrightnessLevel operator++ : the next higher level
LevelUp(level) ==
  CASE level = LEVEL_0 -> LEVEL_1
    [] level = LEVEL_1 -> LEVEL_2
    [] level = LEVEL_2 -> LEVEL_3
    [] OTHER -> LEVEL_4

\* the enumerator decremented as a number
LevelDownByOne(level) == IF level > LEVEL_0 THEN level - 1 ELSE LEVEL_0

\* BrightnessLevel operator-- : the next lower level
LevelDown(level) ==
  CASE level = LEVEL_4 -> LEVEL_3
    [] level = LEVEL_3 -> LEVEL_2
    [] level = LEVEL_2 -> LEVEL_1
    [] OTHER -> LEVEL_0

getBrightnessLevel(brightness) ==
  IF brightness <= LEVEL_0 THEN LEVEL_0
  ELSE IF brightness <= LEVEL_1 THEN LEVEL_1
  ELSE IF brightness <= LEVEL_2 THEN LEVEL_2
  ELSE IF brightness <= LEVEL_3 THEN LEVEL_3
  ELSE LEVEL_4

brightnessToOCR(brightness) ==
  IF brightness >= 0
  THEN IF brightness <= 100 THEN (brightness * ICR1) \div 100 ELSE 100
  ELSE 0

----------------------------------------------------------------------------
(* The interrupt handlers *)

\* the power toggle without a fade target for switching on
TogglePowerNoFade(f) ==
  IF ~f.outputEnabled
  THEN setOperationMode([f EXCEPT !.outputEnabled = TRUE], "MODE_DEFAULT")
  ELSE setOperationMode([f EXCEPT !.outputEnabled = FALSE], "MODE_STANDBY")

\* the power toggle of a short pulse (lines 443-454)
TogglePower(f) ==
  IF ~f.outputEnabled
  THEN LET g == setOperationMode([f EXCEPT !.outputEnabled = TRUE], "MODE_DEFAULT")
       IN  [g EXCEPT !.fadeOCR = brightnessToOCR(ToInt16(g.settings.brightness))]
  ELSE setOperationMode([f EXCEPT !.outputEnabled = FALSE], "MODE_STANDBY")

\* whether a pulse of the given (16 bit) duration toggles the power (line 440)
IsPowerPulse(f, proximityDuration) ==
  /\ f.initalApproach
  /\ proximityDuration >= DURATION_MIN
  /\ proximityDuration <= DURATION_POWER_MAX

\* void proximity(): the pin change interrupt, the pin reading level
proximity(f, level) ==
  LET g == [f EXCEPT !.near = level]
      now == g.millis % UINT16
  IN
  IF g.settings.proximitySensorLocked THEN g
  ELSE IF level
  THEN LET h == [g EXCEPT !.approach = now, !.initalApproach = TRUE,
                          !.proximityAtStartup = FALSE]
       IN  IF h.outputEnabled /\ h.operationMode = "MODE_BLINK_END"
           THEN setOperationMode(h, "MODE_DEFAULT")
           ELSE h
  ELSE IF IsPowerPulse(g, (now - g.approach) % UINT16)
       THEN TogglePower(g)
       ELSE g

\* one step of the fade, the target cleared one unit early
TIMER2_COMPA_ClearEarly(f) ==
  IF f.fadeOCR >= 0
  THEN LET duty == IF f.OCR1A < f.fadeOCR - 1 THEN f.OCR1A + 1
                   ELSE IF f.OCR1A > f.fadeOCR + 1 THEN f.OCR1A - 1
                   ELSE f.OCR1A
       IN  [f EXCEPT !.OCR1A = duty,
                     !.fadeOCR = IF duty = f.OCR1A THEN -1 ELSE @]
  ELSE f

\* ISR(TIMER2_COMPA_vect): one step of the fade
TIMER2_COMPA(f) ==
  IF f.fadeOCR >= 0
  THEN LET duty == IF f.OCR1A < f.fadeOCR THEN f.OCR1A + 1
                   ELSE IF f.OCR1A > f.fadeOCR THEN f.OCR1A - 1
                   ELSE f.OCR1A
       IN  [f EXCEPT !.OCR1A = duty,
                     !.fadeOCR = IF duty = f.fadeOCR THEN -1 ELSE @]
  ELSE f

----------------------------------------------------------------------------
(* setup() *)

\* the watchdog left as it is
wdt_untouched(f) == f

\* wdt_enable(WDTO_2S): the watchdog is enabled and its timer starts anew
wdt_enable(f) == [f EXCEPT !.wdt = TRUE, !.wdtReset = f.millis]

\* the record accepted by its magic alone
MagicAccepted(bytes) == BytesSettings(bytes).magic = EEPROM_MAGIC

\* lines 547-553: the record read from the EEPROM is accepted
RecordAccepted(bytes) ==
  /\ BytesSettings(bytes).magic = EEPROM_MAGIC
  /\ BytesSettings(bytes).crc = calculateCRC16(ZeroCrc(bytes))

\* the brightness checked against the lower limit only
ClampBrightnessLow(s) ==
  IF s.brightness < BRIGHTNESS_MIN THEN [s EXCEPT !.brightness = BRIGHTNESS_MIN]
  ELSE s

\* lines 560-567: check settings
ClampBrightness(s) ==
  IF s.brightness < BRIGHTNESS_MIN THEN [s EXCEPT !.brightness = BRIGHTNESS_MIN]
  ELSE IF s.brightness > BRIGHTNESS_MAX THEN [s EXCEPT !.brightness = BRIGHTNESS_MAX]
  ELSE s

\* lines 544-569: restore settings from EEPROM
RestoreSettings(f) ==
  IF RecordAccepted(f.eeprom)
  THEN [f EXCEPT !.settings = ClampBrightness(BytesSettings(ZeroCrc(f.eeprom)))]
  ELSE f

\* setup() of a device reset with EEPROM content e, the pin reading level
setup(e, level) ==
  LET f0 == RestoreSettings(StaticInit(e))
      f1 == [f0 EXCEPT !.outputEnabled = TRUE,
                       !.fadeOCR = brightnessToOCR(ToInt16(f0.settings.brightness)),
                       !.dimUp = (f0.settings.brightness # BRIGHTNESS_MIN)]
      f2 == [setOperationMode(f1, "MODE_DEFAULT") EXCEPT !.initalApproach = FALSE,
                                                         !.near = level]
      f3 == IF level
            THEN [f2 EXCEPT !.approach = f2.millis, !.proximityAtStartup = TRUE]
            ELSE f2
  IN  [wdt_enable(f3) EXCEPT !.cpu = "run"]

----------------------------------------------------------------------------
(* loop(): one iteration, as steps named by the source line they start at. *)
(* A step reads or writes the variables shared with proximity() at most at *)
(* one place, so that the interrupt can be taken between any two accesses. *)

\* a dim step that signals the upper limit only
DimStepQuietAtMin(f) ==
  LET b == f.settings.brightness
      brightnessLevel == getBrightnessLevel(b)
      g == [f EXCEPT !.dimDelay = IF f.settings.dimSteps THEN DURATION_DIM_STEP
                                  ELSE DURATION_DIM_INC]
  IN
  IF g.dimUp
  THEN IF b < BRIGHTNESS_MAX
       THEN LET nb == IF g.settings.dimSteps THEN LevelUp(brightnessLevel)
                      ELSE Min((b + BRIGHTNESS_INC) % UINT16, BRIGHTNESS_MAX)
                h == [g EXCEPT !.settings.brightness = nb,
                               !.settingsModified = g.now]
            IN  IF nb >= BRIGHTNESS_MAX
                THEN setOperationMode(h, "MODE_BLINK_LIMIT") ELSE h
       ELSE [g EXCEPT !.settings.brightness = BRIGHTNESS_MAX]
  ELSE IF b > BRIGHTNESS_MIN
       THEN LET nb == IF g.settings.dimSteps THEN LevelDown(brightnessLevel)
                      ELSE Max((b - BRIGHTNESS_INC) % UINT16, BRIGHTNESS_MIN)
            IN  [g EXCEPT !.settings.brightness = nb,
                          !.settingsModified = g.now]
       ELSE [g EXCEPT !.settings.brightness = BRIGHTNESS_MIN]

\* lines 654-709: one dim step of settings.brightness
DimStep(f) ==
  LET b == f.settings.brightness
      brightnessLevel == getBrightnessLevel(b)
      g == [f EXCEPT !.dimDelay = IF f.settings.dimSteps THEN DURATION_DIM_STEP
                                  ELSE DURATION_DIM_INC]
  IN
  IF g.dimUp
  THEN IF b < BRIGHTNESS_MAX
       THEN LET nb == IF g.settings.dimSteps THEN LevelUp(brightnessLevel)
                      ELSE Min((b + BRIGHTNESS_INC) % UINT16, BRIGHTNESS_MAX)
                h == [g EXCEPT !.settings.brightness = nb,
                               !.settingsModified = g.now]
            IN  IF nb >= BRIGHTNESS_MAX
                THEN setOperationMode(h, "MODE_BLINK_LIMIT") ELSE h
       ELSE [g EXCEPT !.settings.brightness = BRIGHTNESS_MAX]
  ELSE IF b > BRIGHTNESS_MIN
       THEN LET nb == IF g.settings.dimSteps THEN LevelDown(brightnessLevel)
                      ELSE Max((b - BRIGHTNESS_INC) % UINT16, BRIGHTNESS_MIN)
                h == [g EXCEPT !.settings.brightness = nb,
                               !.settingsModified = g.now]
            IN  IF nb <= BRIGHTNESS_MIN
                THEN setOperationMode(h, "MODE_BLINK_LIMIT") ELSE h
       ELSE [g EXCEPT !.settings.brightness = BRIGHTNESS_MIN]

\* lines 635-636: continued proximity after blinking at top/bottom
AtDimLimit(f) ==
  /\ f.operationMode = "MODE_BLINK_END"
  /\ f.blinkPeriod = BLINK_PERIOD_FAST
  /\ \/ ~f.dimUp /\ f.settings.brightness = BRIGHTNESS_MIN
     \/ f.dimUp /\ f.settings.brightness = BRIGHTNESS_MAX

\* the stored brightness shown when the number of toggles left is odd
BlinkLevelOddStored(f) ==
  IF f.blinkToggleCount % 2 = 1
  THEN f.settings.brightness
  ELSE LET brightnessLevel == getBrightnessLevel(f.settings.brightness)
       IN  IF brightnessLevel > LEVEL_0 THEN LevelDown(brightnessLevel)
           ELSE LevelUp(brightnessLevel)

\* lines 731-741: the brightness shown by the blink toggle just counted
BlinkLevel(f) ==
  IF f.blinkToggleCount % 2 = 0
  THEN f.settings.brightness
  ELSE LET brightnessLevel == getBrightnessLevel(f.settings.brightness)
       IN  IF brightnessLevel > LEVEL_0 THEN LevelDown(brightnessLevel)
           ELSE LevelUp(brightnessLevel)

\* lines 374-410: the temperature reading for the sum of the ADC samples;
\* celsius is what the Steinhart-Hart equation gives for that sum, rounded
getNtcTemperature(sum, celsius) ==
  IF sum > (ADC_SAMPLES * adcResolution) \div 3 THEN celsius ELSE NTC_TEMP_INVALID

\* over-temperature without hysteresis
CheckTemperatureAtMax(f) ==
  IF ~f.overTemperature /\ f.ntcTemperature >= NTC_TEMP_MAX
  THEN setOperationMode([f EXCEPT !.overTemperature = TRUE], "MODE_BLINK_WARNING")
  ELSE IF f.overTemperature /\ f.ntcTemperature < NTC_TEMP_MAX
  THEN [f EXCEPT !.overTemperature = FALSE]
  ELSE f

\* lines 765-773: over-temperature with hysteresis
CheckTemperature(f) ==
  IF ~f.overTemperature /\ f.ntcTemperature >= NTC_TEMP_MAX
  THEN setOperationMode([f EXCEPT !.overTemperature = TRUE], "MODE_BLINK_WARNING")
  ELSE IF f.overTemperature /\ f.ntcTemperature <= NTC_TEMP_MAX - NTC_TEMP_HYSTERESIS
  THEN [f EXCEPT !.overTemperature = FALSE]
  ELSE f

\* the settings saved as soon as they are modified
BackupDueAtOnce(f) == f.settingsModified # 0

\* line 835: backup delay reached
BackupDue(f) ==
  f.settingsModified # 0 /\ f.now - f.settingsModified >= BACKUP_DELAY

\* the settings saved with the checksum taken over the record as it is, the
\* crc field of the save before included
SaveSettingsOverCrc(f) ==
  LET s == [f.settings EXCEPT !.crc = calculateCRC16(SettingsBytes(f.settings))]
  IN  [f EXCEPT !.settings = s, !.eeprom = SettingsBytes(s),
                !.puts = @ + 1, !.settingsModified = 0]

\* lines 838-841: save settings
SaveSettings(f) ==
  LET crc == calculateCRC16(SettingsBytes([f.settings EXCEPT !.crc = 0]))
      s == [f.settings EXCEPT !.crc = crc]
  IN  [f EXCEPT !.settings = s, !.eeprom = SettingsBytes(s),
                !.puts = @ + 1, !.settingsModified = 0]

\* power down with nothing pending, the LED on or off
PowerDownWhenIdle(f) ==
  /\ f.fadeOCR < 0
  /\ ~(f.initalApproach /\ f.proximityDuration <= DURATION_POWER_MAX)

\* line 853: LED is off, nothing pending: power down
PowerDownDue(f) ==
  /\ f.operationMode = "MODE_STANDBY"
  /\ f.fadeOCR < 0
  /\ ~(f.initalApproach /\ f.proximityDuration <= DURATION_POWER_MAX)

Goto(f, label) == [f EXCEPT !.pc = label]

LoopStep(f) ==
  CASE f.pc = "L602" ->
         LET now == f.millis
             delaying == /\ f.delayUntil # 0
                         /\ now < f.delayUntil
                         /\ f.delayUntil - now <= LOOP_PERIOD
         IN  [f EXCEPT !.brightness = 0, !.now = now, !.wdtReset = now,
                       !.proximityDuration = (now - f.approach) % UINT16,
                       !.delaying = delaying,
                       !.pc = IF delaying THEN "L850" ELSE "L611"]
    [] f.pc = "L611" -> Goto(f, IF f.outputEnabled THEN "L611n" ELSE "L720")
    [] f.pc = "L611n" ->
         Goto(f, IF f.near /\ f.proximityDuration >= DURATION_DIM_MIN
                 THEN "L615" ELSE "L720")
    [] f.pc = "L615" ->
         Goto(f, IF f.proximityAtStartup
                 THEN IF f.proximityDuration >= DURATION_LOCK THEN "L620" ELSE "L650"
                 ELSE "L626")
    [] f.pc = "L620" ->
         Goto(setOperationMode(
                [f EXCEPT !.settings.proximitySensorLocked = ~@,
                          !.settingsModified = f.now,
                          !.proximityAtStartup = FALSE],
                "MODE_BLINK_SETTINGS"), "L650")
    [] f.pc = "L626" -> Goto(f, IF f.initalApproach THEN "L629" ELSE "L635")
    [] f.pc = "L629" ->
         [f EXCEPT !.dimUp = ~@, !.initalApproach = FALSE, !.pc = "L650"]
    [] f.pc = "L635" ->
         Goto(f, IF AtDimLimit(f) /\ f.proximityDuration >= DURATION_TOGGLE_STEP
                 THEN "L642" ELSE "L650")
    [] f.pc = "L642" ->
         Goto(setOperationMode(
                [f EXCEPT !.settings.dimSteps = ~@, !.settingsModified = f.now],
                "MODE_BLINK_SETTINGS"), "L650")
    [] f.pc = "L650" ->
         Goto(f, IF f.operationMode = "MODE_DEFAULT" THEN "L654" ELSE "L720")
    [] f.pc = "L654" -> Goto(DimStep(f), "L713")
    [] f.pc = "L713" -> [f EXCEPT !.approachRead = f.approach, !.pc = "L713w"]
    [] f.pc = "L713w" ->
         [f EXCEPT !.approach = f.approachRead + f.dimDelay, !.pc = "L714"]
    [] f.pc = "L714" -> [f EXCEPT !.initalApproach = FALSE, !.pc = "L720"]
    [] f.pc = "L720" -> Goto(f, IF f.outputEnabled THEN "L722" ELSE "L791")
    [] f.pc = "L722" ->
         Goto(f, IF f.blinkToggleCount > 0
                 THEN IF \/ f.blinkToggled = 0
                         \/ f.now - f.blinkToggled >= f.blinkPeriod
                      THEN "L729" ELSE "L750"
                 ELSE "L753")
    [] f.pc = "L729" ->
         [f EXCEPT !.blinkToggleCount = @ - 1, !.blinkToggled = f.now, !.pc = "L731"]
    [] f.pc = "L731" -> [f EXCEPT !.blinkBrightness = BlinkLevel(f), !.pc = "L742"]
    [] f.pc = "L742" -> Goto(f, IF f.blinkToggleCount = 0 THEN "L745" ELSE "L750")
    [] f.pc = "L745" -> Goto(setOperationMode(f, "MODE_BLINK_END"), "L746")
    [] f.pc = "L746" -> [f EXCEPT !.approach = f.now, !.pc = "L747"]
    [] f.pc = "L747" -> [f EXCEPT !.initalApproach = FALSE, !.pc = "L750"]
    [] f.pc = "L750" -> [f EXCEPT !.brightness = f.blinkBrightness, !.pc = "L753"]
    [] f.pc = "L753" -> Goto(CheckTemperature(f), "L775")
    [] f.pc = "L775" ->
         IF f.blinkToggleCount <= 0
         THEN [f EXCEPT !.brightness = IF f.overTemperature THEN BRIGHTNESS_MIN
                                       ELSE ToInt16(f.settings.brightness),
                        !.pc = "L791"]
         ELSE Goto(f, "L791")
    [] f.pc = "L791" ->
         IF f.brightness > 0
         THEN [f EXCEPT !.DDRB = TRUE, !.pc = "L796"]
         ELSE Goto(f, "L802")
    [] f.pc = "L796" -> Goto(f, IF f.fadeOCR < 0 THEN "L798" ELSE "L835")
    [] f.pc = "L798" ->
         [f EXCEPT !.OCR1A = brightnessToOCR(f.brightness),
                   !.fadeAtWrite = f.fadeOCR, !.pc = "L835"]
    [] f.pc = "L802" -> Goto(f, IF f.fadeOCR < 0 THEN "L805" ELSE "L835")
    [] f.pc = "L805" ->
         [f EXCEPT !.DDRB = FALSE, !.OCR1A = 0, !.fadeAtWrite = f.fadeOCR,
                   !.pc = "L835"]
    [] f.pc = "L835" -> Goto(IF BackupDue(f) THEN SaveSettings(f) ELSE f, "L853")
    [] f.pc = "L850" -> [f EXCEPT !.cpu = "idle", !.pc = "sleep"]
    [] f.pc = "L853" -> Goto(f, IF PowerDownDue(f) THEN "L856" ELSE "L866")
    [] f.pc = "L856" -> [f EXCEPT !.delayUntil = 0, !.wdt = FALSE, !.pc = "L860"]
    [] f.pc = "L860" -> [f EXCEPT !.cpu = "pwrdown", !.pc = "sleep"]
    [] f.pc = "L866" -> [f EXCEPT !.delayUntil = f.now + LOOP_PERIOD, !.pc = "L868"]
    [] f.pc = "L868" -> [f EXCEPT !.cpu = "idle", !.pc = "sleep"]

\* the places of loop() before which the proximity interrupt may be taken
LoopLabels ==
  {"L611", "L611n", "L615", "L620", "L626", "L629", "L635", "L642", "L650",
   "L654", "L713", "L713w", "L714", "L720", "L722", "L729", "L731", "L742",
   "L745", "L746", "L747", "L750", "L753", "L775", "L791", "L796", "L798",
   "L802", "L805", "L835", "L850", "L853", "L856", "L860", "L866", "L868"}

\* loop() from where f is up to (not including) the step at label stop, or
\* up to the sleep instruction
RECURSIVE Run(_, _)
Run(f, stop) ==
  IF f.pc = "sleep" \/ f.pc = stop THEN f ELSE Run(LoopStep(f), stop)

\* n interrupts of timer 2
RECURSIVE FadeTicks(_, _)
FadeTicks(f, n) == IF n = 0 THEN f ELSE FadeTicks(TIMER2_COMPA(f), n - 1)

\* the CPU wakes to run loop(): from idle sleep after the rest of the loop
\* period, in which millis() and timer 2 went on and the fade interrupts were
\* served; right away after setup() and after a wake-up from power-down
WakeUp(f, temperature) ==
  LET g == IF f.cpu = "idle"
           THEN FadeTicks([f EXCEPT !.millis = @ + LOOP_PERIOD,
                                    !.t2us = (@ + LOOP_PERIOD * 1000) % T2_PERIOD_US],
                          (f.t2us + LOOP_PERIOD * 1000) \div T2_PERIOD_US)
           ELSE f
  IN  [g EXCEPT !.cpu = "run", !.pc = "L602", !.ntcTemperature = temperature,
                !.fadeAtWrite = -1]

\* the CPU sleeps: the locals of loop() are dead
Asleep(f) ==
  [f EXCEPT !.pc = "L602", !.now = 0, !.proximityDuration = 0, !.delaying = FALSE,
            !.brightness = 0, !.ntcTemperature = 0, !.dimDelay = 0,
            !.approachRead = 0]

----------------------------------------------------------------------------
(* The environment and the history the properties are stated over *)

\* the three settings of a Settings object
Fields(s) ==
  [brightness |-> s.brightness, dimSteps |-> s.dimSteps,
   proximitySensorLocked |-> s.proximitySensorLocked]

Setting(b, steps, locked) ==
  [brightness |-> b, dimSteps |-> steps, proximitySensorLocked |-> locked]

\* the EEPROM content after the firmware saved settings with the fields v
SavedBytes(v) ==
  SaveSettings([StaticInit(<<>>) EXCEPT
                  !.settings = [DefaultSettings EXCEPT
                      !.brightness = v.brightness, !.dimSteps = v.dimSteps,
                      !.proximitySensorLocked = v.proximitySensorLocked]]).eeprom

\* an erased EEPROM
BlankBytes == <<255, 255, 255, 255, 255, 255, 255, 255>>

\* a record with a matching CRC that something else than this firmware wrote
SealedBytes(magic, v) ==
  LET s == [magic |-> magic, brightness |-> v.brightness, dimSteps |-> v.dimSteps,
            proximitySensorLocked |-> v.proximitySensorLocked, crc |-> 0]
  IN  SettingsBytes([s EXCEPT !.crc = calculateCRC16(SettingsBytes(s))])

\* a saved record whose crc field does not match
DamagedBytes(v) ==
  LET b == SavedBytes(v) IN [b EXCEPT ![7] = (@ + 1) % 256]

\* EEPROM contents at power-on.  committed: the content was written by the
\* firmware's save of the fields; firmware: the device can hold the content
\* when only this firmware ever wrote to the EEPROM
Saved(v) ==
  [bytes |-> SavedBytes(v), fields |-> v, committed |-> TRUE,
   firmware |-> (v.dimSteps => v.brightness \in {LEVEL_1, LEVEL_2, LEVEL_3, LEVEL_4})]

Erased ==
  [bytes |-> BlankBytes, fields |-> Fields(DefaultSettings), committed |-> FALSE,
   firmware |-> TRUE]

Sealed(magic, v) ==
  [bytes |-> SealedBytes(magic, v), fields |-> v, committed |-> FALSE,
   firmware |-> FALSE]

Damaged(v) ==
  [bytes |-> DamagedBytes(v), fields |-> v, committed |-> FALSE, firmware |-> FALSE]

NoFall == [valid |-> FALSE, d |-> 0, taken |-> FALSE, flipped |-> FALSE]

\* the history at power-on of a device with the EEPROM content c
History(c) ==
  [ phase |-> "off",          \* off, booted (setup() just ended), running
    rising |-> FALSE,         \* the line went up since boot and is still up
    riseWall |-> 0,           \* when it went up
    riseTaken |-> FALSE,      \* proximity() was not locked when it went up
    fall |-> NoFall,          \* the last falling edge: the pulse's duration,
                              \* whether its rising edge was taken, whether
                              \* outputEnabled was flipped by it
    lastMod |-> -1,           \* when a setting was last modified (-1: not
                              \* since power-on)
    dirty |-> FALSE,          \* a setting was modified and not yet saved
    committed |-> c.committed,\* the EEPROM holds a record the firmware saved
    stored |-> c.fields,      \* the fields of that record
    commits |-> 0,            \* the number of saves so far
    firmware |-> c.firmware,  \* only this firmware ever wrote to the EEPROM
    flipped |-> FALSE,        \* a bit of the EEPROM was flipped since
    atBoot |-> Fields(DefaultSettings),  \* the settings the last setup() left
    lost |-> FALSE,           \* power was lost less than BACKUP_DELAY after
                              \* the latest modification
    reading |-> 0,            \* the temperature the last iteration could read
    warned |-> FALSE,         \* MODE_BLINK_WARNING was entered since
                              \* overTemperature was last found cleared
    holdStart |-> -1,         \* since when the line is up (-1: it is down)
    dims |-> 0,               \* changes of the brightness since then
    lastDim |-> -1,           \* when the brightness was last changed
    atLimit |-> FALSE,        \* a change brought the brightness to a limit
                              \* and the line did not go up since
    resaved |-> FALSE,        \* the latest save found the settings as they
                              \* were saved before
    blinkStart |-> -1,        \* when the latest blink indication was entered
    fadeStart |-> -1,         \* when the latest fade target was set
    fadeFrom |-> -1,          \* the duty when the fade target was set
    fadeTicks |-> 0,          \* the fade interrupts served since then
    level |-> -1,             \* what getBrightnessLevel() returned
    torn |-> FALSE,           \* power was lost during a save
    before |-> Fields(DefaultSettings),   \* the settings restored before it
    writing |-> Fields(DefaultSettings) ] \* the settings that were being saved

\* the temperature readings a tick at wall-clock time w may get
Readings(w) == IF w \in prof.hotAt THEN prof.hot ELSE prof.temps

\* the environment may move its hand at wall-clock time w: the line has been
\* at its level for one of the durations the script has for the next edge
EdgeAllowed(w) ==
  /\ env.edges < Len(prof.script)
  /\ (w - env.lastEdge) \in prof.script[env.edges + 1]

\* an edge to the given level at wall-clock time w: f before and g after proximity()
EdgeHistory(h, f, g, level, w) ==
  IF level
  THEN [h EXCEPT !.rising = TRUE, !.riseWall = w,
                 !.riseTaken = ~f.settings.proximitySensorLocked,
                 !.holdStart = w, !.dims = 0, !.atLimit = FALSE]
  ELSE [h EXCEPT !.rising = FALSE, !.holdStart = -1,
                 !.fadeStart = IF g.outputEnabled # f.outputEnabled THEN w ELSE @,
                 !.fall = [valid |-> h.rising, d |-> w - h.riseWall,
                           taken |-> h.riseTaken,
                           flipped |-> g.outputEnabled # f.outputEnabled]]

\* what loop() did to the settings between f and g, at wall-clock time w
LoopHistory(h, f, g, w) ==
  LET modified == Fields(g.settings) # Fields(f.settings)
      saved == g.puts # f.puts
      dimmed == g.settings.brightness # f.settings.brightness
      indicated == /\ g.operationMode \in Indications
                   /\ \/ g.operationMode # f.operationMode
                      \/ g.blinkToggleCount > f.blinkToggleCount
  IN  [h EXCEPT !.phase = "running",
                !.blinkStart = IF indicated THEN w ELSE @,
                !.warned = IF ~g.overTemperature THEN FALSE
                           ELSE IF g.operationMode = "MODE_BLINK_WARNING" THEN TRUE
                           ELSE @,
                !.dims = IF dimmed THEN @ + 1 ELSE @,
                !.lastDim = IF dimmed THEN w ELSE @,
                !.atLimit = IF dimmed
                            THEN g.settings.brightness
                                   \in {BRIGHTNESS_MIN, BRIGHTNESS_MAX}
                            ELSE @,
                !.lastMod = IF modified THEN w ELSE @,
                !.dirty = IF saved THEN FALSE ELSE IF modified THEN TRUE ELSE @,
                !.committed = IF saved THEN TRUE ELSE @,
                !.resaved = IF saved
                            THEN h.committed /\ Fields(g.settings) = h.stored
                            ELSE @,
                !.stored = IF saved THEN Fields(g.settings) ELSE @,
                !.commits = IF saved THEN @ + 1 ELSE @,
                !.flipped = IF saved THEN FALSE ELSE @]

EdgeTaken(w) == [env EXCEPT !.edges = @ + 1, !.lastEdge = w]

----------------------------------------------------------------------------
(* Actions *)

\* power-on reset: setup()
Boot ==
  /\ fw.cpu = "off"
  /\ fw' = setup(fw.eeprom, line)
  /\ hist' = [hist EXCEPT !.phase = "booted", !.atBoot = Fields(fw'.settings),
                          !.fadeStart = wall,
                          !.holdStart = IF line THEN wall ELSE -1]
  /\ UNCHANGED <<line, wall, env, prof>>

\* one iteration of loop() in which no proximity interrupt is taken
Tick ==
  /\ fw.cpu \in {"run", "idle"}
  /\ wall < prof.tmax
  /\ LET w == IF fw.cpu = "idle" THEN wall + LOOP_PERIOD ELSE wall IN
     \E temperature \in Readings(w) :
       LET g == Asleep(Run(WakeUp(fw, temperature), "none")) IN
       /\ fw' = g
       /\ wall' = w
       /\ hist' = [LoopHistory(hist, fw, g, w) EXCEPT !.reading = temperature]
  /\ UNCHANGED <<line, env, prof>>

\* one iteration of loop() with the proximity interrupt taken before the
\* step at one of its labels
TickPreempted ==
  /\ fw.cpu \in {"run", "idle"}
  /\ wall < prof.tmax
  /\ LET w == IF fw.cpu = "idle" THEN wall + LOOP_PERIOD ELSE wall IN
     /\ EdgeAllowed(w)
     /\ \E temperature \in Readings(w), at \in prof.labels :
          LET f == Run(WakeUp(fw, temperature), at)
              g == proximity(f, ~line)
              h == Asleep(Run(g, "none"))
          IN  /\ f.pc = at
              /\ fw' = h
              /\ hist' = [LoopHistory(EdgeHistory(hist, f, g, ~line, w), fw, h, w)
                             EXCEPT !.reading = temperature]
     /\ wall' = w
     /\ env' = EdgeTaken(w)
  /\ line' = ~line
  /\ UNCHANGED prof

\* the proximity interrupt while the CPU sleeps idle between two iterations
\* (the CPU wakes, loop() finds itself delaying and sleeps again)
ProximityIdle ==
  /\ fw.cpu = "idle"
  /\ EdgeAllowed(wall)
  /\ LET g == proximity(fw, ~line) IN
     /\ fw' = g
     /\ hist' = EdgeHistory(hist, fw, g, ~line, wall)
  /\ line' = ~line
  /\ env' = EdgeTaken(wall)
  /\ UNCHANGED <<wall, prof>>

\* the proximity interrupt wakes the CPU from power-down (timer 0 stood
\* still: millis() did not count); loop() goes on after sleep_mode()
WakeByProximity ==
  /\ fw.cpu = "pwrdown"
  /\ env.edges < Len(prof.script)
  /\ \E d \in prof.script[env.edges + 1] :
       /\ env.lastEdge + d >= wall
       /\ wall' = env.lastEdge + d
       /\ LET g == proximity(fw, ~line) IN
          /\ fw' = [wdt_enable(g) EXCEPT !.cpu = "run"]
          /\ hist' = EdgeHistory(hist, fw, g, ~line, wall')
       /\ env' = EdgeTaken(wall')
  /\ line' = ~line
  /\ UNCHANGED prof

\* time passes while the CPU is in power-down
PowerDownNap ==
  /\ fw.cpu = "pwrdown"
  /\ \E dt \in prof.naps :
       /\ wall + dt <= prof.tmax
       /\ wall' = wall + dt
  /\ UNCHANGED <<fw, line, env, prof, hist>>

\* the supply is cut: the RAM and the registers are lost, the EEPROM stays
PowerLoss ==
  /\ fw.cpu # "off"
  /\ env.bootsLeft > 0
  /\ wall \in prof.lossAt
  /\ fw' = StaticInit(fw.eeprom)
  /\ env' = [env EXCEPT !.bootsLeft = @ - 1]
  /\ hist' = [hist EXCEPT !.phase = "off", !.rising = FALSE, !.fall = NoFall,
                          !.lastMod = -1, !.dirty = FALSE,
                          !.reading = 0, !.warned = FALSE, !.holdStart = -1,
                          !.blinkStart = -1, !.fadeStart = -1,
                          !.dims = 0, !.lastDim = -1, !.atLimit = FALSE,
                          !.lost = /\ hist.lastMod >= 0
                                   /\ wall - hist.lastMod < BACKUP_DELAY]
  /\ UNCHANGED <<line, wall, prof>>

\* one bit of the stored record flips while the device is off
CorruptBit ==
  /\ fw.cpu = "off"
  /\ env.flipsLeft > 0
  /\ \E i \in 1..8, k \in 0..7 :
       fw' = [fw EXCEPT !.eeprom[i] = Xor(@, 2^k)]
  /\ env' = [env EXCEPT !.flipsLeft = @ - 1]
  /\ hist' = [hist EXCEPT !.flipped = TRUE]
  /\ UNCHANGED <<line, wall, prof>>

\* a power-on state: a device with the EEPROM content c under a profile
PowerOn(c, profile, boots, flips) ==
  /\ fw = StaticInit(c.bytes)
  /\ line \in profile.lineAtBoot
  /\ wall = 0
  /\ env = [edges |-> 0, lastEdge |-> 0, bootsLeft |-> boots, flipsLeft |-> flips]
  /\ prof = profile
  /\ hist = History(c)

----------------------------------------------------------------------------
(* Specification of the gestures: short pulses and holds, the proximity *)
(* interrupt taken at every place of loop()                             *)

MaxEdges == 4
MaxTime == 2500

GestureProfile ==
  [ lineAtBoot |-> {FALSE},
    script |-> [i \in 1..MaxEdges |->
                  IF i % 2 = 1 THEN {50, 200} ELSE {50, 100, 300, 600, 610, 850}],
    labels |-> LoopLabels,
    temps |-> {25}, hot |-> {25}, hotAt |-> {},
    naps |-> {}, lossAt |-> {},
    tmax |-> MaxTime ]

Init ==
  \E c \in {Erased, Saved(Setting(16, TRUE, FALSE)), Saved(Setting(16, TRUE, TRUE))} :
    PowerOn(c, GestureProfile, 0, 0)

Next ==
  \/ Boot
  \/ Tick
  \/ TickPreempted
  \/ ProximityIdle
  \/ WakeByProximity

Spec == Init /\ [][Next]_vars

\* C1: every pulse whose rising edge was taken with the sensor not locked and
\* whose falling edge follows 100..600 ms later flips outputEnabled at its
\* falling edge, in every mode and wherever in loop() the edges are taken
PowerToggleGesture ==
  ( /\ hist.fall.valid
    /\ hist.fall.taken
    /\ hist.fall.d >= DURATION_MIN
    /\ hist.fall.d <= DURATION_POWER_MAX )
  => hist.fall.flipped

\* C3: while settings.proximitySensorLocked is set, no step of the running
\* device (no edge, no tick with the hand near) changes outputEnabled,
\* settings.brightness, dimUp or settings.dimSteps, and none changes
\* operationMode but a blink that comes to its end; the hold that began at
\* boot (proximityAtStartup) is the one gesture left
SensorLock ==
  [][ ( /\ fw.settings.proximitySensorLocked
        /\ ~fw.proximityAtStartup
        /\ fw.cpu # "off" /\ fw'.cpu # "off" )
      => /\ fw'.outputEnabled = fw.outputEnabled
         /\ fw'.settings.brightness = fw.settings.brightness
         /\ fw'.dimUp = fw.dimUp
         /\ fw'.settings.dimSteps = fw.settings.dimSteps
         /\ (fw'.operationMode = fw.operationMode \/ fw.blinkToggleCount > 0) ]_vars

----------------------------------------------------------------------------
(* Specification of dimming and of the delayed backup: holds long enough  *)
(* to dim, to reach a limit and to toggle the step size, quiet periods    *)
(* longer than BACKUP_DELAY, power-down sleep and a loss of power         *)

MaxDimTime == 12400

DimProfile ==
  [ lineAtBoot |-> {FALSE},
    script |-> << {50}, {850, 6200}, {200, 10500}, {200, 850}, {1000}, {200} >>,
    labels |-> {"L611n", "L835"},
    temps |-> {25}, hot |-> {25}, hotAt |-> {},
    naps |-> {BACKUP_DELAY}, lossAt |-> {5000, 12300},
    tmax |-> MaxDimTime ]

\* EEPROM contents: erased, saved by the firmware in stepped and in continuous
\* mode, written by something else (a brightness out of range, a stepped
\* brightness that is no level), damaged
DimContents ==
  { Erased,
    Saved(Setting(16, TRUE, FALSE)),
    Saved(Setting(5, FALSE, FALSE)),
    Saved(Setting(98, FALSE, FALSE)),
    Sealed(EEPROM_MAGIC, Setting(65535, TRUE, FALSE)),
    Sealed(EEPROM_MAGIC, Setting(2, FALSE, FALSE)),
    Sealed(EEPROM_MAGIC, Setting(57, TRUE, FALSE)),
    Damaged(Setting(16, FALSE, FALSE)) }

InitDim == \E c \in DimContents : PowerOn(c, DimProfile, 1, 0)

NextDim ==
  \/ Boot
  \/ Tick
  \/ TickPreempted
  \/ ProximityIdle
  \/ WakeByProximity
  \/ PowerDownNap
  \/ PowerLoss

SpecDim == InitDim /\ [][NextDim]_vars

\* C4: settings.brightness is in [4,100] in every reachable state, whatever
\* the EEPROM held at boot and whatever was dimmed since
BrightnessInRange ==
  fw.settings.brightness \in BRIGHTNESS_MIN..BRIGHTNESS_MAX

\* a record with brightness 65535 was restored and the brightness dimmed since
BrightnessClampedAndDimmed ==
  /\ hist.phase = "running"
  /\ hist.stored.brightness = 65535
  /\ hist.lastMod >= 0

\* C5: on a device whose EEPROM only this firmware ever wrote, whenever
\* settings.dimSteps is set, settings.brightness is one of 0, 4, 16, 32, 100
SteppedValues ==
  (hist.firmware /\ fw.settings.dimSteps)
  => fw.settings.brightness \in {LEVEL_0, LEVEL_1, LEVEL_2, LEVEL_3, LEVEL_4}

\* the step size toggle turned dimSteps on: the record in the EEPROM is one
\* of continuous mode, the firmware's own
SteppedTurnedOn ==
  /\ hist.firmware /\ hist.committed /\ ~hist.stored.dimSteps
  /\ fw.settings.dimSteps
  /\ hist.dirty

\* a step of the running device in which EEPROM.put is called
Saves == fw.cpu # "off" /\ fw'.cpu # "off" /\ fw'.puts # fw.puts

\* C6: the EEPROM is written only in an iteration of loop() that finds the
\* settings modified (settingsModified # 0) and the latest modification at
\* least BACKUP_DELAY ms ago, it is written once, with the settings, and
\* settingsModified is cleared by it; settingsModified is set as long as a
\* modification is not saved; and the setup() after a loss of power less than
\* BACKUP_DELAY ms after the latest modification restores what was saved last
\* (what the setup() before restored, if nothing was saved since)
DelayedCommitSafety ==
  [][ /\ Saves =>
           /\ fw.settingsModified # 0 /\ hist.dirty
           /\ wall' - hist.lastMod >= BACKUP_DELAY
           /\ fw'.puts = fw.puts + 1
           /\ Fields(BytesSettings(fw'.eeprom)) = Fields(fw'.settings)
           /\ fw'.settingsModified = 0
      /\ (fw'.cpu # "off" /\ hist'.phase = "running")
           => (hist'.dirty <=> fw'.settingsModified # 0)
      /\ (fw.cpu = "off" /\ fw'.cpu # "off" /\ hist.lost)
           => Fields(fw'.settings) =
                IF hist.committed THEN hist.stored ELSE hist.atBoot
    ]_vars

\* the settings were saved, modified again, the power was lost shortly after
\* and setup() has run
RestoredAfterLoss ==
  /\ hist.phase = "booted"
  /\ hist.lost
  /\ hist.commits >= 1
  /\ Fields(fw.settings) = hist.stored

\* C7: a modification of a setting that is not saved is never older than
\* BACKUP_DELAY ms while the device is powered
DelayedCommitResponse ==
  (fw.cpu # "off" /\ hist.dirty) => wall - hist.lastMod <= BACKUP_DELAY

----------------------------------------------------------------------------
(* Specification of the settings store: setup() on every record the      *)
(* firmware can save, on each of them with one bit flipped, on an erased *)
(* EEPROM and on records that do not match                               *)

MaxStoreTime == 10

StoreProfile ==
  [ lineAtBoot |-> {FALSE},
    script |-> << >>,
    labels |-> {},
    temps |-> {25}, hot |-> {25}, hotAt |-> {},
    naps |-> {}, lossAt |-> {},
    tmax |-> MaxStoreTime ]

\* every valid value of the settings
ValidSettings ==
  { Setting(b, steps, locked) :
      b \in BRIGHTNESS_MIN..BRIGHTNESS_MAX, steps \in BOOLEAN, locked \in BOOLEAN }

StoreContents ==
  { Saved(v) : v \in ValidSettings }
  \cup { Erased,
         Sealed(EEPROM_MAGIC + 1, Setting(57, FALSE, TRUE)),
         Damaged(Setting(57, FALSE, TRUE)) }

InitStore == \E c \in StoreContents : PowerOn(c, StoreProfile, 0, 1)

NextStore ==
  \/ CorruptBit
  \/ Boot
  \/ Tick

SpecStore == InitStore /\ [][NextStore]_vars

\* the record in the EEPROM: its magic, its crc, the CRC-16 of its bytes with
\* the crc field zeroed
StoredMagic == fw.eeprom[1] + 256 * fw.eeprom[2]
StoredCrc == fw.eeprom[7] + 256 * fw.eeprom[8]
ExpectedCrc ==
  calculateCRC16(<< fw.eeprom[1], fw.eeprom[2], fw.eeprom[3], fw.eeprom[4],
                    fw.eeprom[5], fw.eeprom[6], 0, 0 >>)

\* C8: setup() leaves the EEPROM as it is and the output enabled in
\* MODE_DEFAULT; unless the magic of the record is 0xAFFE and its crc the
\* CRC-16 of the record with the crc field zeroed, the settings are
\* {brightness 32, dimSteps true, proximitySensorLocked false}
LoadValidation ==
  [][ (fw.cpu = "off" /\ fw'.cpu # "off")
      => /\ fw'.eeprom = fw.eeprom
         /\ fw'.puts = 0
         /\ fw'.outputEnabled
         /\ fw'.operationMode = "MODE_DEFAULT"
         /\ ~(StoredMagic = 45054 /\ StoredCrc = ExpectedCrc)
              => Fields(fw'.settings) = Setting(32, TRUE, FALSE) ]_vars

\* setup() has run on a record with the magic 0xAFFE whose crc does not match
RejectedByCrc ==
  /\ hist.phase = "booted"
  /\ StoredMagic = 45054
  /\ StoredCrc # ExpectedCrc
  /\ ~hist.flipped
  /\ Fields(fw.settings) = Setting(32, TRUE, FALSE)

\* C9: after setup() on a record that the firmware saved from valid settings,
\* brightness, dimSteps and proximitySensorLocked are those that were saved
RoundTrip ==
  (hist.phase = "booted" /\ hist.committed /\ ~hist.flipped)
  => Fields(fw.settings) = hist.stored

\* setup() has restored brightness 57, continuous dimming, sensor locked
RestoredSaved ==
  /\ hist.phase = "booted" /\ hist.committed /\ ~hist.flipped
  /\ hist.stored = Setting(57, FALSE, TRUE)
  /\ Fields(fw.settings) = Setting(57, FALSE, TRUE)

\* C10: after setup() on a record that the firmware saved and of which one
\* bit was flipped since, the settings are the defaults
CorruptionDetection ==
  (hist.phase = "booted" /\ hist.committed /\ hist.flipped)
  => Fields(fw.settings) = Setting(32, TRUE, FALSE)

\* setup() has run on the saved record of brightness 57, continuous dimming,
\* sensor locked, with a bit of its dimSteps byte flipped
RejectedFlippedBit ==
  /\ hist.phase = "booted" /\ hist.committed /\ hist.flipped
  /\ hist.stored = Setting(57, FALSE, TRUE)
  /\ fw.eeprom[5] # 0
  /\ Fields(fw.settings) = Setting(32, TRUE, FALSE)

----------------------------------------------------------------------------
(* Specification of a long hold: a dim to the lower limit, a short pulse  *)
(* while the limit is signalled, then a hold of more than 2^16 ms         *)

MaxHoldTime == 67100

HoldProfile ==
  [ lineAtBoot |-> {FALSE},
    script |-> << {50}, {850}, {50}, {200}, {50}, {610, UINT16 + 304} >>,
    labels |-> {"L742", "L835"},
    temps |-> {25}, hot |-> {25}, hotAt |-> {},
    naps |-> {}, lossAt |-> {},
    tmax |-> MaxHoldTime ]

InitHold ==
  \E c \in {Erased, Saved(Setting(16, TRUE, FALSE))} : PowerOn(c, HoldProfile, 0, 0)

NextHold ==
  \/ Boot
  \/ Tick
  \/ TickPreempted
  \/ ProximityIdle

SpecHold == InitHold /\ [][NextHold]_vars

\* C2: no pulse shorter than 100 ms or longer than 600 ms (wall-clock time
\* between its rising and its falling edge) changes outputEnabled at its
\* falling edge, however long it is
NoToggleOutsideWindow ==
  ( /\ hist.fall.valid
    /\ (hist.fall.d < DURATION_MIN \/ hist.fall.d > DURATION_POWER_MAX) )
  => ~hist.fall.flipped

----------------------------------------------------------------------------
(* Specification of repeated saves: the brightness is dimmed, saved, dimmed *)
(* away and back, and saved again                                           *)

MaxCommitTime == 23400

CommitProfile ==
  [ lineAtBoot |-> {FALSE},
    script |-> << {50}, {850}, {200, 10500}, {850}, {200}, {850} >>,
    labels |-> {"L835"},
    temps |-> {25}, hot |-> {25}, hotAt |-> {},
    naps |-> {}, lossAt |-> {},
    tmax |-> MaxCommitTime ]

InitCommit ==
  \E c \in {Erased, Saved(Setting(16, TRUE, FALSE)), Saved(Setting(50, FALSE, TRUE))} :
    PowerOn(c, CommitProfile, 0, 0)

NextCommit ==
  \/ Boot
  \/ Tick
  \/ TickPreempted
  \/ ProximityIdle

SpecCommit == InitCommit /\ [][NextCommit]_vars

\* C11: the record a save writes is a function of settings.brightness,
\* settings.dimSteps and settings.proximitySensorLocked alone (the crc field
\* left by the save before has no part in it), and a save of settings whose
\* three fields are as they were saved before leaves every byte of the EEPROM
\* as it was
CommitIdempotence ==
  [][ Saves =>
        /\ fw'.eeprom = SavedBytes(Fields(fw'.settings))
        /\ (hist.committed /\ Fields(fw'.settings) = hist.stored)
             => fw'.eeprom = fw.eeprom
    ]_vars

\* the second save since power-on found the fields as the first saved them,
\* with the crc field of the first save in the settings
SavedTwiceTheSame ==
  /\ hist.commits >= 2
  /\ hist.resaved
  /\ fw.settings.crc # 0
  /\ fw.eeprom = SavedBytes(hist.stored)

----------------------------------------------------------------------------
(* Specification of the board temperature: at some times an iteration of   *)
(* loop() reads any of a few temperatures or finds the sensor failed, in    *)
(* between the temperature stays within the hysteresis; meanwhile the       *)
(* output is switched off and on again                                      *)

MaxThermalTime == 2000

\* sample sums of a failed (at most a third of the full scale) and of a
\* working sensor
SampleSums == {0, 1023, 1024, 1500}

ThermalProfile ==
  [ lineAtBoot |-> {FALSE},
    script |-> << {50}, {200}, {200, 800}, {200} >>,
    labels |-> {"L775"},
    temps |-> {82},
    hot |-> {getNtcTemperature(sum, celsius) :
               sum \in SampleSums, celsius \in {25, 80, 81, 84, 85}},
    hotAt |-> {0, 10, 250, 300, 310, 700, 710, 1300, 1310, 1700},
    naps |-> {}, lossAt |-> {},
    tmax |-> MaxThermalTime ]

InitThermal ==
  \E c \in {Erased, Saved(Setting(100, TRUE, FALSE))} :
    PowerOn(c, ThermalProfile, 0, 0)

NextThermal ==
  \/ Boot
  \/ Tick
  \/ TickPreempted
  \/ ProximityIdle
  \/ WakeByProximity

SpecThermal == InitThermal /\ [][NextThermal]_vars

\* C12: overTemperature is set only by an iteration of loop() that reads a
\* temperature of at least NTC_TEMP_MAX (85) and cleared only by one that
\* reads at most NTC_TEMP_MAX - NTC_TEMP_HYSTERESIS (80); an iteration that
\* reads 81..84 leaves it as it is; the iteration that sets it enters
\* MODE_BLINK_WARNING (10 toggles, fast period), which is the mode at the end
\* of the iteration unless the proximity interrupt switched the output off
\* after the temperature was checked
ThermalHysteresis ==
  [][ (fw.cpu # "off" /\ fw'.cpu # "off") =>
        /\ (~fw.overTemperature /\ fw'.overTemperature) =>
             /\ hist'.reading >= NTC_TEMP_MAX
             /\ fw'.outputEnabled =>
                  /\ fw'.operationMode = "MODE_BLINK_WARNING"
                  /\ fw'.blinkToggleCount = 10
                  /\ fw'.blinkPeriod = BLINK_PERIOD_FAST
        /\ (fw.overTemperature /\ ~fw'.overTemperature) =>
             hist'.reading <= NTC_TEMP_MAX - NTC_TEMP_HYSTERESIS
        /\ (/\ hist'.reading > NTC_TEMP_MAX - NTC_TEMP_HYSTERESIS
            /\ hist'.reading < NTC_TEMP_MAX) =>
             fw'.overTemperature = fw.overTemperature
    ]_vars

\* an iteration read 85 with overTemperature cleared: the warning begins
WarningBegun ==
  /\ hist.phase = "running"
  /\ hist.reading = NTC_TEMP_MAX
  /\ fw.overTemperature
  /\ fw.operationMode = "MODE_BLINK_WARNING"
  /\ fw.blinkToggleCount = 10

\* a step that is an iteration of loop()
Iterates == fw.cpu = "run" \/ (fw.cpu = "idle" /\ wall' # wall)

\* C13: after every iteration of loop() that has the output enabled and
\* reads the invalid sentinel or any temperature of at least 85, from the
\* first iteration after setup() on, the device is classified as overheating,
\* MODE_BLINK_WARNING was entered since it was last found not overheating,
\* and the output, once no blink and no fade is going on, is at the duty of
\* BRIGHTNESS_MIN
FailSafe ==
  [][ ( /\ Iterates
        /\ fw.outputEnabled /\ fw'.outputEnabled
        /\ hist'.reading >= NTC_TEMP_MAX ) =>
        /\ fw'.overTemperature
        /\ hist'.warned
        /\ (fw'.blinkToggleCount <= 0 /\ fw'.fadeOCR < 0) =>
             fw'.OCR1A = brightnessToOCR(BRIGHTNESS_MIN)
    ]_vars

\* C14: whenever the output is enabled and overTemperature is set (and an
\* iteration of loop() has read the temperature since power-on), the duty
\* the output is driven with (OCR1A) and the duty it is fading to (fadeOCR)
\* are at most the duty of BRIGHTNESS_MIN
BrightnessLimitedWhileHot ==
  (hist.phase = "running" /\ fw.outputEnabled /\ fw.overTemperature) =>
    /\ fw.OCR1A <= brightnessToOCR(BRIGHTNESS_MIN)
    /\ fw.fadeOCR <= brightnessToOCR(BRIGHTNESS_MIN)

----------------------------------------------------------------------------
(* Specification of the proximity at power-on: the line is up when setup()  *)
(* reads it and stays up, or goes down and up again later                   *)

MaxLockTime == 25100

LockProfile ==
  [ lineAtBoot |-> {TRUE},
    script |-> << {1000}, {500, 13500}, {300, 1000} >>,
    labels |-> {"L611n"},
    temps |-> {25}, hot |-> {25}, hotAt |-> {},
    naps |-> {}, lossAt |-> {},
    tmax |-> MaxLockTime ]

LockContents ==
  { Erased,
    Saved(Setting(4, TRUE, FALSE)),
    Saved(Setting(16, TRUE, TRUE)),
    Saved(Setting(100, TRUE, TRUE)),
    Saved(Setting(50, FALSE, FALSE)),
    Saved(Setting(4, FALSE, TRUE)) }

InitLock == \E c \in LockContents : PowerOn(c, LockProfile, 0, 0)

NextLock ==
  \/ Boot
  \/ Tick
  \/ TickPreempted
  \/ ProximityIdle

SpecLock == InitLock /\ [][NextLock]_vars

\* C15: settings.proximitySensorLocked changes only in an iteration of loop()
\* before which the line was up when setup() read it and has not gone down
\* since, for at least DURATION_LOCK ms; once it went down, no later approach
\* toggles the lock
LockToggleSafety ==
  [][ ( /\ fw.cpu # "off" /\ fw'.cpu # "off"
        /\ fw'.settings.proximitySensorLocked # fw.settings.proximitySensorLocked )
      => /\ line'
         /\ env'.edges = 0
         /\ hist'.holdStart >= 0
         /\ wall' - hist'.holdStart >= DURATION_LOCK
    ]_vars

\* the time after which a line held up since power-on has the lock toggled
LockDeadline == 25000

\* C16: if the line is up at power-on and stays up, the lock gets toggled,
\* whatever settings were stored: stated with a deadline that allows for the
\* longest dimming to a limit (96 steps of 40 ms), the limit blink and
\* DURATION_LOCK after it
LockToggleResponse ==
  ( /\ hist.phase = "running"
    /\ line /\ env.edges = 0 /\ hist.holdStart >= 0
    /\ wall - hist.holdStart >= LockDeadline )
  => fw.settings.proximitySensorLocked # hist.atBoot.proximitySensorLocked

----------------------------------------------------------------------------
(* Holds and dimming *)

\* C17: the iteration of loop() that finds the line up for DURATION_DIM_MIN
\* ms for the first time in a hold (output enabled, initalApproach still set)
\* inverts dimUp, clears initalApproach and leaves settings.brightness at the
\* value it had before the iteration
FirstLongHold ==
  [][ ( /\ Iterates /\ env' = env
        /\ fw.outputEnabled /\ fw.near /\ line
        /\ fw.initalApproach /\ ~fw.proximityAtStartup
        /\ hist.holdStart >= 0
        /\ wall' - hist.holdStart >= DURATION_DIM_MIN )
      => /\ fw'.dimUp # fw.dimUp
         /\ ~fw'.initalApproach
         /\ fw'.settings.brightness = fw.settings.brightness
    ]_vars

\* a change of the brightness by one level (stepped) or by 1 % (continuous)
OneStep(a, b, steps) ==
  IF steps
  THEN {a, b} \in {{BRIGHTNESS_MIN, BRIGHTNESS_STEP_1},
                   {BRIGHTNESS_STEP_1, BRIGHTNESS_STEP_2},
                   {BRIGHTNESS_STEP_2, BRIGHTNESS_MAX}}
  ELSE a - b \in {BRIGHTNESS_INC, -BRIGHTNESS_INC}

\* C18: with the sensor unlocked, the k-th change of settings.brightness in
\* a hold happens in an iteration of loop() at least
\* DURATION_DIM_MIN + (k-1)*P ms after the line went up (P = 800 stepped,
\* 40 continuous), each change is one step, and the iteration before a
\* change made none
DimCadence ==
  [][ ( /\ Iterates
        /\ ~fw.settings.proximitySensorLocked
        /\ fw'.settings.brightness # fw.settings.brightness ) =>
        LET start == IF line' THEN hist'.holdStart ELSE hist.holdStart
            k == IF line' THEN hist'.dims ELSE hist.dims + 1
            P == IF fw.settings.dimSteps THEN DURATION_DIM_STEP ELSE DURATION_DIM_INC
        IN  /\ start >= 0
            /\ wall' - start >= DURATION_DIM_MIN + (k - 1) * P
            /\ OneStep(fw.settings.brightness, fw'.settings.brightness,
                       fw.settings.dimSteps)
            /\ hist.lastDim >= 0 => wall' - hist.lastDim > LOOP_PERIOD
    ]_vars

----------------------------------------------------------------------------
(* Specification of a thermal warning with the brightness at a limit: one   *)
(* iteration of loop() may read NTC_TEMP_MAX, the hand comes while the      *)
(* warning blinks and stays                                                 *)

MaxWarnTime == 8800

WarnProfile ==
  [ lineAtBoot |-> {FALSE},
    script |-> << {400, 1000}, {200, 5200} >>,
    labels |-> {"L722"},
    temps |-> {25}, hot |-> {25, NTC_TEMP_MAX}, hotAt |-> {200},
    naps |-> {}, lossAt |-> {},
    tmax |-> MaxWarnTime ]

WarnContents ==
  { Erased,
    Saved(Setting(4, TRUE, FALSE)),
    Saved(Setting(100, TRUE, FALSE)),
    Saved(Setting(100, FALSE, FALSE)) }

InitWarn == \E c \in WarnContents : PowerOn(c, WarnProfile, 0, 0)

NextWarn ==
  \/ Boot
  \/ Tick
  \/ TickPreempted
  \/ ProximityIdle

SpecWarn == InitWarn /\ [][NextWarn]_vars

\* C20: settings.dimSteps changes only in an iteration of loop() that starts
\* in MODE_BLINK_END after a dim step brought the brightness to a limit, with
\* the line up without a new rising edge since, the brightness at the limit
\* of the dim direction, at least DURATION_TOGGLE_STEP ms after the limit was
\* reached; the iteration enters MODE_BLINK_SETTINGS.  Nothing else, no
\* thermal warning either, leads to a change of dimSteps
StepToggle ==
  [][ ( /\ fw.cpu # "off" /\ fw'.cpu # "off"
        /\ fw'.settings.dimSteps # fw.settings.dimSteps ) =>
        /\ Iterates
        /\ fw.operationMode = "MODE_BLINK_END"
        /\ hist.atLimit
        /\ line /\ hist.holdStart >= 0
        /\ \/ fw.dimUp /\ fw.settings.brightness = BRIGHTNESS_MAX
           \/ ~fw.dimUp /\ fw.settings.brightness = BRIGHTNESS_MIN
        /\ wall' - hist.lastDim >= DURATION_TOGGLE_STEP
        /\ fw'.operationMode = "MODE_BLINK_SETTINGS"
    ]_vars

----------------------------------------------------------------------------
(* The main loop and the proximity interrupt *)

\* C21: with the sensor unlocked, an iteration of loop() that writes a new
\* settings.brightness starts with the output enabled, the line up since at
\* least DURATION_DIM_MIN ms and the mode MODE_DEFAULT, wherever in the
\* iteration the proximity interrupt is taken (an iteration in which the line
\* goes up cannot write: the line was down before the edge and the hold is
\* only beginning after it)
WrittenInDefault ==
  [][ ( /\ Iterates
        /\ ~fw.settings.proximitySensorLocked
        /\ fw'.settings.brightness # fw.settings.brightness ) =>
        /\ fw.outputEnabled
        /\ line
        /\ hist.holdStart >= 0
        /\ wall' - hist.holdStart >= DURATION_DIM_MIN
        /\ fw.operationMode = "MODE_DEFAULT"
    ]_vars

----------------------------------------------------------------------------
(* Blink indications *)

\* the toggles and the period setOperationMode() gives an indication
BlinkToggles(mode) ==
  CASE mode = "MODE_BLINK_LIMIT" -> 4
    [] mode = "MODE_BLINK_SETTINGS" -> 6
    [] mode = "MODE_BLINK_WARNING" -> 10

BlinkPeriod(mode) ==
  IF mode = "MODE_BLINK_SETTINGS" THEN BLINK_PERIOD_SLOW ELSE BLINK_PERIOD_FAST

\* this step enters an indication
Indicates ==
  /\ fw'.operationMode \in Indications
  /\ \/ fw'.operationMode # fw.operationMode
     \/ fw'.blinkToggleCount > fw.blinkToggleCount

\* the level the step's toggle shows: the stored brightness after an even
\* number of toggles left, a lower level after an odd number
TogglesShown ==
  IF fw'.blinkToggleCount % 2 = 0 \/ fw'.operationMode = "MODE_BLINK_END"
  THEN fw'.blinkBrightness = fw'.settings.brightness
  ELSE fw'.blinkBrightness < fw'.settings.brightness

\* an iteration of loop() in a running indication: a toggle counts one down,
\* comes no sooner than a period after the toggle before and shows the
\* levels in turn; the toggle after the last but one shows the stored
\* brightness and ends in MODE_BLINK_END; the indication is over within
\* its number of periods
BlinkRuns ==
  /\ (fw.operationMode \in Indications /\ ~Indicates) =>
       /\ fw'.operationMode \in {fw.operationMode, "MODE_BLINK_END"}
       /\ fw'.blinkToggleCount # fw.blinkToggleCount =>
            /\ fw.blinkToggled # 0 =>
                 fw'.blinkToggled - fw.blinkToggled >= BlinkPeriod(fw.operationMode)
            /\ TogglesShown
            /\ IF fw.blinkToggleCount = 1
               THEN fw'.operationMode = "MODE_BLINK_END" /\ fw'.blinkToggleCount = -1
               ELSE /\ fw'.operationMode = fw.operationMode
                    /\ fw'.blinkToggleCount = fw.blinkToggleCount - 1
       /\ fw'.blinkToggleCount = fw.blinkToggleCount =>
            fw'.operationMode = fw.operationMode
       /\ fw.blinkToggled = 0 => fw'.blinkToggleCount # fw.blinkToggleCount
  /\ fw'.operationMode \in Indications =>
       /\ fw'.blinkToggleCount > 0
       /\ fw'.blinkPeriod = BlinkPeriod(fw'.operationMode)
       /\ wall' - hist'.blinkStart <
            BlinkToggles(fw'.operationMode) * BlinkPeriod(fw'.operationMode)

----------------------------------------------------------------------------
(* The fade *)

\* C23: loop() writes the duty registers and the output enable bits only
\* when no fade target is present at the write, wherever in the iteration
\* the proximity interrupt sets a fade target
FadeExclusive == fw.fadeAtWrite < 0

\* what the time a fade takes may differ from FADE_DURATION by [ms]: the
\* period of loop(), in which the end of a fade is seen, and the rounding
\* of OCR2A
FadeTolerance == 30

\* C24: every fade ends FADE_DURATION s (2000 ms) after its target was set,
\* whatever the duty it starts from and whatever its target
FixedFadeDuration ==
  [][ (Iterates /\ fw.fadeOCR >= 0 /\ fw'.fadeOCR < 0) =>
        /\ wall' - hist.fadeStart >= FADE_DURATION * 1000 - FadeTolerance
        /\ wall' - hist.fadeStart <= FADE_DURATION * 1000 + FadeTolerance
    ]_vars

\* Specification of one fade: a fade target is set with the duty anywhere in
\* 0..ICR1, then timer 2 interrupts until the target is cleared
FadeTargets == {0, 4, 16, 32, 50, 100}

InitFade ==
  \E duty \in 0..ICR1, brightness \in FadeTargets :
    /\ fw = [setup(Erased.bytes, FALSE) EXCEPT !.OCR1A = duty,
                                               !.fadeOCR = brightnessToOCR(brightness),
                                               !.cpu = "idle"]
    /\ line = FALSE
    /\ wall = 0
    /\ env = [edges |-> 0, lastEdge |-> 0, bootsLeft |-> 0, flipsLeft |-> 0]
    /\ prof = GestureProfile
    /\ hist = [History(Erased) EXCEPT !.phase = "running", !.fadeFrom = duty]

\* the compare match interrupt of timer 2 with a fade target present
FadeInterrupt ==
  /\ fw.fadeOCR >= 0
  /\ fw' = TIMER2_COMPA(fw)
  /\ hist' = [hist EXCEPT !.fadeTicks = @ + 1]
  /\ UNCHANGED <<line, wall, env, prof>>

NextFade == FadeInterrupt

SpecFade == InitFade /\ [][NextFade]_vars

\* timer 2 runs free: its interrupt is served as long as a target is present
\* (the CPU does not power down with a fade target pending)
SpecFadeLive == SpecFade /\ WF_vars(FadeInterrupt)

Distance(a, b) == IF a >= b THEN a - b ELSE b - a

\* C29: a fade interrupt with a target present moves the duty one unit toward
\* the target (not at all if it is there), clears the target exactly when the
\* duty equals it and keeps the duty in 0..ICR1; with no new target the fade
\* reaches its target and the target is cleared by the |target - duty|-th
\* interrupt, by the first one if the duty was at the target already
FadeConverges ==
  /\ [][ fw.fadeOCR >= 0 =>
           /\ Distance(fw'.OCR1A, fw.fadeOCR)
                = (IF fw.OCR1A = fw.fadeOCR THEN 0
                   ELSE Distance(fw.OCR1A, fw.fadeOCR) - 1)
           /\ Distance(fw'.OCR1A, fw.OCR1A) <= 1
           /\ fw'.OCR1A \in 0..ICR1
           /\ fw'.fadeOCR = (IF fw'.OCR1A = fw.fadeOCR THEN -1 ELSE fw.fadeOCR)
           /\ fw'.fadeOCR < 0 =>
                hist'.fadeTicks
                  = (IF hist.fadeFrom = fw.fadeOCR THEN 1
                     ELSE Distance(fw.fadeOCR, hist.fadeFrom))
       ]_vars
  /\ <>(fw.fadeOCR < 0)

\* C29 as it is worded: the target is cleared after |target - duty|
\* interrupts
FadeClearedAfterDistance ==
  [][ (fw.fadeOCR >= 0 /\ fw'.fadeOCR < 0) =>
        hist'.fadeTicks = Distance(fw.fadeOCR, hist.fadeFrom) ]_vars

\* a fade whose target was the duty already: cleared by one interrupt
FadeClearedAtOnce ==
  /\ fw.fadeOCR < 0
  /\ hist.fadeTicks = 1
  /\ hist.fadeFrom = fw.OCR1A

(***************************************************************************)
(* Power-down sleep                                                        *)
(***************************************************************************)

\* C25: whenever the CPU is in power-down sleep the output is disabled, the
\* operation mode is MODE_STANDBY and no fade target is pending
PowerDownOnlyWhenOff ==
  fw.cpu = "pwrdown" =>
    /\ ~fw.outputEnabled
    /\ fw.operationMode = "MODE_STANDBY"
    /\ fw.fadeOCR < 0

\* Specification of the way to power-down: a tap that switches the output
\* off, then the hand comes back and leaves while loop() is about to power
\* down, the proximity interrupt taken at every place of loop()
MaxSleepTime == 2500

SleepProfile ==
  [ lineAtBoot |-> {FALSE},
    script |-> << {50}, {100}, {200, 500, 510, 520}, {100, 600, 610, 620} >>,
    labels |-> LoopLabels,
    temps |-> {25}, hot |-> {25}, hotAt |-> {},
    naps |-> {}, lossAt |-> {},
    tmax |-> MaxSleepTime ]

InitSleep ==
  \E c \in {Erased, Saved(Setting(16, TRUE, FALSE))} :
    PowerOn(c, SleepProfile, 0, 0)

NextSleep ==
  \/ Boot
  \/ Tick
  \/ TickPreempted
  \/ ProximityIdle
  \/ WakeByProximity

SpecSleep == InitSleep /\ [][NextSleep]_vars

\* the CPU is in power-down after an iteration of loop() in which the
\* proximity interrupt was served (a rising edge, still unanswered)
PowerDownAfterEdge ==
  /\ fw.cpu = "pwrdown"
  /\ fw.near
  /\ fw.initalApproach
  /\ fw.approach = fw.millis % UINT16

(***************************************************************************)
(* What the proximity interrupt writes and loop() observes                 *)
(***************************************************************************)

\* the proximity interrupt is served in this step: a rising edge taken with
\* the sensor not locked
RisingEdgeServed ==
  /\ env'.edges = env.edges + 1
  /\ line'
  /\ hist'.riseTaken

\* the proximity interrupt is served in this step: a falling edge that
\* switches the output off
PowerOffServed ==
  /\ env'.edges = env.edges + 1
  /\ ~line'
  /\ hist'.fall.flipped
  /\ fw.outputEnabled

\* C26: no edge is lost: what the proximity interrupt wrote (approach,
\* initalApproach, near, outputEnabled, operationMode) is what stands when
\* the iteration of loop() it was served in is over, loop() overwrites none
\* of it
NoLostEdge ==
  [][ /\ RisingEdgeServed =>
           /\ fw'.near
           /\ fw'.initalApproach
           /\ fw'.approach = fw'.millis % UINT16
      /\ PowerOffServed =>
           /\ ~fw'.near
           /\ ~fw'.outputEnabled
           /\ fw'.operationMode = "MODE_STANDBY"
    ]_vars

(***************************************************************************)
(* The mode and the fade target after setup() and after proximity()        *)
(***************************************************************************)

\* setup() is run in this step
SetupRun == fw.cpu = "off" /\ fw'.cpu # "off"

\* proximity() alone is run in this step: the interrupt is served while the
\* CPU sleeps, no statement of loop() follows in the step
ProximityRun ==
  /\ env'.edges = env.edges + 1
  /\ \/ fw.cpu = "pwrdown"
     \/ fw.cpu = "idle" /\ wall' = wall

\* the duty-cycle value of the stored brightness
StoredDuty(f) == (f.settings.brightness * ICR1) \div 100

\* C27: (a) setup() ends with the output enabled, MODE_DEFAULT and the duty
\* of the stored brightness as fade target; (b) a power toggle that switches
\* on sets MODE_DEFAULT and that fade target; (c) a power toggle that
\* switches off sets MODE_STANDBY, clears the blink countdown and sets the
\* fade target 0; (d) a rising edge with the sensor not locked, the output
\* enabled and MODE_BLINK_END sets MODE_DEFAULT
ModeAndFadeTarget ==
  [][ /\ SetupRun =>
           /\ fw'.outputEnabled
           /\ fw'.operationMode = "MODE_DEFAULT"
           /\ fw'.fadeOCR = StoredDuty(fw')
      /\ (ProximityRun /\ ~line' /\ hist'.fall.flipped /\ ~fw.outputEnabled) =>
           /\ fw'.outputEnabled
           /\ fw'.operationMode = "MODE_DEFAULT"
           /\ fw'.fadeOCR = StoredDuty(fw')
      /\ (ProximityRun /\ ~line' /\ hist'.fall.flipped /\ fw.outputEnabled) =>
           /\ ~fw'.outputEnabled
           /\ fw'.operationMode = "MODE_STANDBY"
           /\ fw'.blinkToggleCount = 0
           /\ fw'.fadeOCR = 0
      /\ ( /\ ProximityRun /\ line'
           /\ ~fw.settings.proximitySensorLocked
           /\ fw.outputEnabled
           /\ fw.operationMode = "MODE_BLINK_END" ) =>
           fw'.operationMode = "MODE_DEFAULT"
    ]_vars

\* a tap has just switched the output on: MODE_DEFAULT and the duty of the
\* stored brightness as fade target
SwitchedOnByTap ==
  /\ hist.fall.flipped
  /\ env.lastEdge = wall
  /\ ~line
  /\ fw.outputEnabled
  /\ fw.operationMode = "MODE_DEFAULT"
  /\ fw.fadeOCR = StoredDuty(fw)
  /\ fw.fadeOCR > 0

(***************************************************************************)
(* The watchdog                                                            *)
(***************************************************************************)

\* C28: the watchdog is enabled whenever the CPU is not in power-down, it was
\* reset at the start of the iteration of loop() just run, and it is
\* disabled while the CPU is in power-down: disabled on the way into
\* power-down only, enabled again on wake-up
WatchdogGuard ==
  /\ fw.cpu \in {"run", "idle"} => fw.wdt /\ fw.wdtReset = fw.millis
  /\ fw.cpu = "pwrdown" => ~fw.wdt

\* the CPU was woken from power-down by the proximity interrupt and loop()
\* goes on behind sleep_mode()
WokenFromPowerDown ==
  /\ fw.cpu = "run"
  /\ hist.phase = "running"
  /\ env.lastEdge = wall
  /\ fw.wdt

(***************************************************************************)
(* The brightness levels                                                   *)
(***************************************************************************)

\* Specification of getBrightnessLevel(): the stored brightness anywhere in
\* BRIGHTNESS_MIN..BRIGHTNESS_MAX, a limit indication begun; the level is
\* read and the first blink toggle is made
InitLevel ==
  \E brightness \in BRIGHTNESS_MIN..BRIGHTNESS_MAX :
    /\ fw = setOperationMode(
              [setup(Erased.bytes, FALSE) EXCEPT !.settings.brightness = brightness,
                                                 !.cpu = "idle"],
              "MODE_BLINK_LIMIT")
    /\ line = FALSE
    /\ wall = 0
    /\ env = [edges |-> 0, lastEdge |-> 0, bootsLeft |-> 0, flipsLeft |-> 0]
    /\ prof = GestureProfile
    /\ hist = [History(Erased) EXCEPT !.phase = "running"]

\* getBrightnessLevel() is called
ReadLevel ==
  /\ hist.level < 0
  /\ hist' = [hist EXCEPT !.level = getBrightnessLevel(fw.settings.brightness)]
  /\ UNCHANGED <<fw, line, wall, env, prof>>

\* lines 729-741: the first toggle of the indication, to the lowered level
FirstBlinkToggle ==
  /\ fw.blinkToggleCount = 4
  /\ LET g == [fw EXCEPT !.blinkToggleCount = @ - 1, !.blinkToggled = fw.millis]
     IN  fw' = [g EXCEPT !.blinkBrightness = BlinkLevel(g)]
  /\ UNCHANGED <<line, wall, env, prof, hist>>

NextLevel ==
  \/ ReadLevel
  \/ FirstBlinkToggle

SpecLevel == InitLevel /\ [][NextLevel]_vars

\* the highest of the levels 0, 4, 16, 32, 100 that is not above b
FloorLevel(b) ==
  IF b >= LEVEL_4 THEN LEVEL_4
  ELSE IF b >= LEVEL_3 THEN LEVEL_3
  ELSE IF b >= LEVEL_2 THEN LEVEL_2
  ELSE IF b >= LEVEL_1 THEN LEVEL_1
  ELSE LEVEL_0

\* C30: getBrightnessLevel() returns the highest level that is not above the
\* stored brightness, and the lowered level of a blink is the level just below
\* that one
LevelIsFloor ==
  /\ hist.level >= 0 => hist.level = FloorLevel(fw.settings.brightness)
  /\ fw.blinkToggleCount = 3 =>
       fw.blinkBrightness = LevelDown(FloorLevel(fw.settings.brightness))

(***************************************************************************)
(* Power lost during a save                                                *)
(***************************************************************************)

\* EEPROM.put() (EEPROM.update() per byte): the bytes that differ are
\* rewritten in address order; the EEPROM when the first k of them are
\* written
TornBytes(old, new, k) ==
  [i \in 1..8 |->
     IF old[i] # new[i] /\ Cardinality({j \in 1..i : old[j] # new[j]}) <= k
     THEN new[i] ELSE old[i]]

\* Specification of a torn write: a device with a committed record or an
\* erased EEPROM boots, its settings are modified, and the supply is cut
\* while loop() saves them; then it boots again
TornBrightness == {4, 5, 16, 32, 57, 100}

\* the settings the firmware can hold with these brightnesses
TornSettings ==
  { v \in { Setting(b, steps, locked) :
              b \in TornBrightness, steps \in BOOLEAN, locked \in BOOLEAN } :
      v.dimSteps => v.brightness \in {LEVEL_1, LEVEL_2, LEVEL_3, LEVEL_4} }

TornContents == { Saved(v) : v \in TornSettings } \cup {Erased}

InitTorn == \E c \in TornContents : PowerOn(c, StoreProfile, 0, 0)

\* lines 835-843 with the settings modified to v, cut short by a power loss
\* when k bytes are written
TornSave ==
  /\ fw.cpu = "run"
  /\ hist.phase = "booted"
  /\ ~hist.torn
  /\ \E v \in TornSettings \ {Fields(fw.settings)} :
       LET f == SaveSettings([fw EXCEPT
                  !.settings.brightness = v.brightness,
                  !.settings.dimSteps = v.dimSteps,
                  !.settings.proximitySensorLocked = v.proximitySensorLocked])
       IN  \E k \in 0..8 :
             /\ k <= Cardinality({j \in 1..8 : fw.eeprom[j] # f.eeprom[j]})
             /\ fw' = StaticInit(TornBytes(fw.eeprom, f.eeprom, k))
             /\ hist' = [hist EXCEPT !.phase = "off", !.torn = TRUE,
                                     !.before = Fields(fw.settings),
                                     !.writing = v]
  /\ UNCHANGED <<line, wall, env, prof>>

NextTorn ==
  \/ Boot
  \/ TornSave

SpecTorn == InitTorn /\ [][NextTorn]_vars

\* the fields of the record in the EEPROM
StoredFields == Fields(BytesSettings(fw.eeprom))

\* C31: after a power loss during a save, with the record in the EEPROM a
\* mixture of the bytes of the record committed before and of the record
\* being written, setup() leaves the settings committed before, the settings
\* that were being written or the defaults, never a mixture of their fields
TornWriteResolved ==
  (hist.torn /\ hist.phase = "booted") =>
     Fields(fw.settings) \in {hist.before, hist.writing, Fields(DefaultSettings)}

\* setup() ran on a record whose fields are a mixture of the fields committed
\* before and the fields being written
BootedOnMixedFields ==
  /\ hist.torn
  /\ hist.phase = "booted"
  /\ StoredMagic = EEPROM_MAGIC
  /\ StoredFields \notin {hist.before, hist.writing}
  /\ StoredFields.brightness = hist.writing.brightness
  /\ StoredFields.proximitySensorLocked = hist.before.proximitySensorLocked

(***************************************************************************)
(* The mode and the output                                                 *)
(***************************************************************************)

\* C32: between the iterations of loop() the output is disabled exactly when
\* the mode is MODE_STANDBY, and the blink countdown is 0 whenever the mode
\* is MODE_STANDBY or MODE_DEFAULT
ModeOutputConsistent ==
  (fw.cpu \in {"idle", "pwrdown"}) =>
     /\ ~fw.outputEnabled <=> fw.operationMode = "MODE_STANDBY"
     /\ fw.operationMode \in {"MODE_STANDBY", "MODE_DEFAULT"} =>
          fw.blinkToggleCount = 0

(***************************************************************************)
(* Taps                                                                    *)
(***************************************************************************)

\* the step lies in the first DURATION_POWER_MAX ms of a pulse whose rising
\* edge was taken with the sensor not locked: from the step that serves the
\* rising edge to the step that serves the falling edge
WithinTap ==
  /\ fw.cpu # "off" /\ fw'.cpu # "off"
  /\ hist'.riseTaken
  /\ \/ /\ line'
        /\ hist'.holdStart >= 0
        /\ wall' - hist'.holdStart <= DURATION_POWER_MAX
     \/ /\ line /\ ~line'
        /\ hist'.fall.valid
        /\ hist'.fall.d <= DURATION_POWER_MAX

\* C33: a pulse of at most DURATION_POWER_MAX (600 ms) changes neither
\* settings.brightness nor dimUp nor settings.dimSteps and does not mark the
\* settings as modified, wherever in loop() its edges are served
TapNeverDims ==
  [][ WithinTap =>
        /\ fw'.settings.brightness = fw.settings.brightness
        /\ fw'.dimUp = fw.dimUp
        /\ fw'.settings.dimSteps = fw.settings.dimSteps
        /\ fw'.settingsModified \in {fw.settingsModified, 0}
    ]_vars

====
